---- MODULE Spec2Model ----
(***************************************************************************)
(* Model of the OpenStax accounts signup workflow                          *)
(* (pages/accounts/signup.py, SignupOld.account_signup) and of the click   *)
(* stabilizer it is built on (utils/utilities.py, Utility.click_option).   *)
(*                                                                         *)
(* The browser, the accounts server and the mail services are the          *)
(* environment: what they answer is a nondeterministic choice inside the   *)
(* step that asks them, and mail is delivered by an action of its own.     *)
(***************************************************************************)
EXTENDS Integers, Sequences, FiniteSets, TLC

VARIABLES
    \* ---- account_signup: arguments
    role,           \* _type
    email,          \* email, a sequence of characters
    provider,       \* provider
    tutor,          \* tutor
    social,         \* kwargs['social'], "none" when the key is absent
    news,           \* kwargs.get('news')
    subjects,       \* kwargs.get('subjects', []), a sequence of names
    destination,    \* destination: "none", "url" (a str) or "page" (a Page)
    backend,        \* driver.name of the browser session
    \* ---- account_signup: control and locals
    pc,             \* position in account_signup
    pin,            \* local `pin` (0: empty or None)
    failure,        \* message of the exception that ended the call, "" if none
    failedAt,       \* position at which the exception was raised
    \* ---- the browser page
    field,          \* content of the PIN input, one code per entry
    alert,          \* text of the '.alert' element, "" when there is none
    pinAlert,       \* an '.alert-danger' element is shown
    location,       \* where the browser is
    \* ---- the mail service
    inbox,          \* messages of the account in order of arrival
    undelivered,    \* messages the service may still deliver
    \* ---- record of what the run did
    lastSubmit,     \* the form the last next() submitted
    extraContinue,  \* the extra confirmation continue was issued
    readAt,         \* length of the inbox when the PIN was last extracted
    submitted,      \* content of the PIN input at the last PIN submission
    submittedAt,    \* readAt of the PIN that was last submitted
    lastPinOutcome, \* answer of the server to the last PIN submission
    nFetch, nClear, nSubmit, nReject,  \* loop counters, saturating at MaxCount
    filled,         \* profile fields written
    newsToggles,    \* clicks on the newsletter checkbox
    termsAgreed,    \* the policy checkbox was clicked
    noticeRequested,\* the approval notification was requested
    selected,       \* the list handed to select_subjects
    selectCalls,    \* calls of select_subjects
    newsChecked,    \* the newsletter checkbox is checked
    newsWasChecked, \* the newsletter checkbox as the page rendered it
    returned,       \* the page account_signup returned, "" before it returns
    passwordField,  \* content of the password input, one entry per send_keys
    confirmationField, \* content of the password confirmation input
    \* ---- click_option
    cpc,            \* position in click_option
    cargs,          \* its arguments and the backend
    attempts,       \* synthetic dispatch attempts made
    dispatched,     \* how the click reached the page: "no", "native", "js"
    nativeClicks,   \* native clicks issued
    resolves,       \* element look-ups by locator inside the retry loop
    scrolled,       \* shift of the scroll that preceded the click, 0 if none
    lastErr,        \* last error of a synthetic dispatch
    raised,         \* error that left click_option, "" if none
    \* ---- wait_for_overlay_then
    wpc,            \* position in wait_for_overlay_then
    wargs,          \* time and interval, in tenths of a second
    invocations,    \* calls of target() made
    completions,    \* calls of target() that returned
    lastResult,     \* how the last call of target() ended
    wraised,        \* error that left wait_for_overlay_then, "" if none
    \* ---- subject_list
    spc,            \* position in subject_list
    requested,      \* its argument `size` as passed
    size,           \* `size` after the clamp
    group,          \* local `group`
    book,           \* local `book`
    \* ---- clear_field
    kpc,            \* position in clear_field
    kname,          \* driver.name
    kfield,         \* the input: its text, the caret, whether all is selected
    kbefore,        \* the text of the input when clear_field was called
    ksent,          \* what clear_field sent to the input
    \* ---- the submit operations of the newer signup pages, go_to_external_
    gpc,            \* position in the operation
    gop,            \* the operation called, and whether a url was passed
    gdest,          \* the class of the destination page, "" before it is made
    glocation,      \* driver.current_url
    gmessage,       \* the texts of the page's .invalid-message, none or one
    gwaits,         \* calls of destination.wait_for_page_to_load()
    greloads,       \* calls of destination.driver.get(url)
    glast,          \* how the last wait ended: "none", "loaded", "timeout"
    gresult,        \* the page returned, "" when none
    graised,        \* the exception that reached the caller
    \* ---- two account_signup instances and the mail service they share
    mprovider,      \* the provider both instances were given
    memail,         \* the email of each instance
    mstore,         \* the messages the mail service holds, in order of arrival
    mpc,            \* the position of each instance
    mpin,           \* the PIN each instance fetched last
    mcatalog        \* the class attribute SignupOld.SUBJECTS

signupVars == <<role, email, provider, tutor, social, news, subjects,
                destination, backend, passwordField, confirmationField,
                selected, selectCalls, newsChecked,
                newsWasChecked, returned, pc, pin, failure,
                failedAt, field, alert, pinAlert, location, inbox, undelivered,
                lastSubmit, extraContinue, readAt, submitted, submittedAt,
                lastPinOutcome, nFetch, nClear, nSubmit, nReject, filled,
                newsToggles,
                termsAgreed, noticeRequested>>

clickVars == <<cpc, cargs, attempts, dispatched, nativeClicks, resolves,
               scrolled, lastErr, raised>>

overlayVars == <<wpc, wargs, invocations, completions, lastResult, wraised>>

subjectVars == <<spc, requested, size, group, book>>

clearVars == <<kpc, kname, kfield, kbefore, ksent>>

pageVars == <<gpc, gop, gdest, glocation, gmessage, gwaits, greloads, glast,
              gresult, graised>>

pairVars == <<mprovider, memail, mstore, mpc, mpin, mcatalog>>

\* the variables of the other utilities
moreVars == <<clearVars, pageVars, pairVars>>

auxVars == <<overlayVars, subjectVars, moreVars>>

vars == <<signupVars, clickVars, auxVars>>

-----------------------------------------------------------------------------
\* Bounds of the exploration

\* messages the mail service delivers during one PIN exploration
MaxMail == 3

\* cap of the loop counters
MaxCount == 4

\* entries of the subject catalog that subject_list draws from
CatalogSize == 4

-----------------------------------------------------------------------------
\* Roles and inputs

STUDENT == "Student"

INSTRUCTOR == "Instructor"

ADMINISTRATOR == "Administrator"

LIBRARIAN == "Librarian"

DESIGNER == "Instructional Designer"

OTHER_ROLE == "Other"

Roles == {STUDENT, INSTRUCTOR, ADMINISTRATOR, LIBRARIAN, DESIGNER, OTHER_ROLE}

Providers == {"google", "guerrilla", "restmail", "other"}

Socials == {"none", "facebook", "google"}

\* t@u.edu
EduAddress == <<"t", "@", "u", ".", "e", "d", "u">>

\* t@m.net
NetAddress == <<"t", "@", "m", ".", "n", "e", "t">>

\* t@m.xedu : ends in "edu" without ending in ".edu"
NearEduAddress == <<"t", "@", "m", ".", "x", "e", "d", "u">>

Emails == {EduAddress, NetAddress, NearEduAddress}

\* texts the page may show in its '.alert' element; "" is no error
ErrTexts == {"", "Email is invalid", "Something went wrong"}

\* str.endswith
EndsWith(s, suffix) ==
    /\ Len(s) >= Len(suffix)
    /\ SubSeq(s, Len(s) - Len(suffix) + 1, Len(s)) = suffix

\* a counter of the run's record, kept finite
Inc(n) == IF n < MaxCount THEN n + 1 ELSE n

-----------------------------------------------------------------------------
\* The mail service.  A message is [id, code]: ids grow in order of arrival,
\* code is the PIN the message carries, NoPin when it carries none.

NoPin == 0

Range(s) == {s[i] : i \in 1..Len(s)}

\* the message that arrived last
Newest(box) == CHOOSE m \in Range(box) : \A o \in Range(box) : o.id <= m.id

\* the code the accounts server accepts: the last one it sent
ValidCode ==
    LET coded == {i \in 1..Len(inbox) : inbox[i].code # NoPin}
    IN  IF coded = {} THEN NoPin
        ELSE inbox[CHOOSE i \in coded : \A j \in coded : j <= i].code

\* RestMail.wait_for_mail(): the messages of the box, oldest first
RestmailBox(messages) == messages

\* page.emails of a webmail page: the messages as listed, newest first
WebmailListing(messages) ==
    [i \in 1..Len(messages) |-> messages[Len(messages) + 1 - i]]

\* GmailReader(...).read_mail().sort_mail().latest.get_pin
GmailLatestPin(messages) ==
    IF messages = <<>> THEN NoPin ELSE Newest(messages).code

\* a slip of the index: box[0].pin
RestmailPinOldest(box) == box[1].code

\* _get_pin, restmail branch: box[-1].pin
RestmailPin(box) == box[Len(box)].code

\* _get_pin, webmail branch: the wait condition page.emails[0].has_pin
WebmailHasPin(listing) == listing[1].code # NoPin

\* _get_pin, webmail branch: page.emails[0].get_pin
WebmailPin(listing) == listing[1].code

-----------------------------------------------------------------------------
\* SignupOld.SUBJECTS and SignupOld.subject_list(size)

\* the titles of SUBJECTS in catalog order (the registered sign of the two
\* AP titles is left out)
SUBJECTS ==
    <<"Accounting", "Algebra and Trigonometry", "American Government",
      "Anatomy and Physiology", "Astronomy", "Biology", "Calculus",
      "Chemistry", "Chemistry: Atoms First", "College Algebra",
      "College Physics", "Concepts of Biology", "Introduction to Business",
      "Introduction to Sociology 2e", "Introductory Statistics",
      "Microbiology", "Prealgebra", "Precalculus", "Principles of Economics",
      "Principles of Macroeconomics",
      "Principles of Macroeconomics for AP Courses",
      "Principles of Microeconomics",
      "Principles of Microeconomics for AP Courses", "Psychology",
      "The AP Physics Collection", "U.S. History", "University Physics",
      "Not Listed">>

\* the catalog subject_list is explored with: the first CatalogSize titles
Catalog == SubSeq(SUBJECTS, 1, CatalogSize)

\* values of `size` explored: none, some, all, and more than the catalog has
Sizes == 0..(CatalogSize + 2)

\* Utility.random(start, end): the integers it may return
random(start, end) == IF start >= end THEN {start} ELSE start..end

\* a size taken as given
SizeAsGiven(sz, count) == sz

\* if size > subjects: size = subjects
ClampSize(sz, count) == IF sz > count THEN count ELSE sz

\* subjects = len(self.SUBJECTS) and the clamp
SubjectClamp ==
    /\ spc = "start"
    /\ size' = ClampSize(requested, Len(Catalog))
    /\ spc' = "loop"
    /\ UNCHANGED <<requested, group, book, overlayVars, signupVars,
                   clickVars, moreVars>>

\* one turn of `while len(group) < size` in which random returned i
SubjectDraw(i) ==
    /\ spc = "loop"
    /\ Len(group) < size
    /\ i \in random(0, Len(Catalog) - 1)
    /\ book' = Catalog[i + 1]
    /\ group' = IF book' \notin Range(group) THEN Append(group, book')
                ELSE group
    /\ UNCHANGED <<spc, requested, size, overlayVars, signupVars, clickVars,
                   moreVars>>

\* the loop condition fails: return group
SubjectReturn ==
    /\ spc = "loop"
    /\ ~(Len(group) < size)
    /\ spc' = "returned"
    /\ UNCHANGED <<requested, size, group, book, overlayVars, signupVars,
                   clickVars, moreVars>>

SubjectStep ==
    \/ SubjectClamp
    \/ \E i \in 0..(Len(Catalog) - 1) : SubjectDraw(i)
    \/ SubjectReturn

-----------------------------------------------------------------------------
\* account_signup: decisions

non_student_role(t) == t # STUDENT

instructor(t) == t = INSTRUCTOR

\* the guard of the extra continue: non_student_role and not email.endswith('edu')
NeedsExtraContinue(t, e) ==
    non_student_role(t) /\ ~EndsWith(e, <<"e", "d", "u">>)

\* the assert left out
AssertNeverFails(err) == FALSE

\* assert(not self.error), '{0}'.format(self.error): err is the text self.error
\* reads from the '.alert' element, "" when the look-up raises
AssertFails(err) == err # ""

\* the message of the AssertionError
AssertMessage(err) == err

\* a pin_failure that always times out
PinFailureNever(alertDanger) == FALSE

\* PinVerification.pin_failure: an '.alert-danger' element turned up in the wait
pin_failure(alertDanger) == alertDanger

\* a flag that is never cleared
not_verified_always(failed) == TRUE

\* the test of pin_failure inverted
not_verified_inverted(failed) == ~failed

\* `if not self.pin.pin_failure: not_verified = False`: not_verified afterwards
not_verified(failed) == failed

\* a loop that starts the signup over
LoopHeadRestarts == "role_email"

\* a loop that keeps the PIN it has and resumes at clear_pin
LoopHeadKeepsPin == "pin_clear"

\* where `while not_verified` resumes after a rejected PIN: at the mail fetch
LoopHead == "pin_fetch"

\* ---- Utility.clear_field ------------------------------------------------
\* An input is its text, the caret (the number of characters before it) and
\* whether the whole text is selected.

\* the text without its i-th character
RemoveAt(text, i) == SubSeq(text, 1, i - 1) \o SubSeq(text, i + 1, Len(text))

\* an input without text
Emptied == [text |-> <<>>, cursor |-> 0, all |-> FALSE]

\* what one thing sent to an input does to it
Apply(f, k) ==
    CASE k = "CLEAR" -> Emptied
      [] k = "CLICK" -> [f EXCEPT !.all = FALSE]
      [] k = "SELECT_ALL" -> [f EXCEPT !.all = (f.text # <<>>)]
      [] k = "DELETE" ->
            IF f.all THEN Emptied
            ELSE IF f.cursor < Len(f.text)
                 THEN [f EXCEPT !.text = RemoveAt(f.text, f.cursor + 1)]
                 ELSE f
      [] k = "BACKSPACE" ->
            IF f.all THEN Emptied
            ELSE IF f.cursor > 0
                 THEN [f EXCEPT !.text = RemoveAt(f.text, f.cursor),
                                !.cursor = f.cursor - 1]
                 ELSE f

RECURSIVE ApplyAll(_, _)
\* the input after everything in `sent`, in order
ApplyAll(f, sent) ==
    IF sent = <<>> THEN f ELSE ApplyAll(Apply(f, Head(sent)), Tail(sent))

\* a key list of Delete keys only
ClearKeysDeleteOnly(n) == [i \in 1..n |-> "DELETE"]

\* for _ in range(n): clear.append(Keys.DELETE); clear.append(Keys.BACKSPACE)
ClearKeys(n) == [i \in 1..(2 * n) |-> IF i % 2 = 1 THEN "DELETE"
                                                    ELSE "BACKSPACE"]

\* what clear_field sends to the input, by driver.name
ClearSent(name, f) ==
    IF name = "chrome" THEN <<"CLEAR">>
    ELSE IF name = "firefox" THEN <<"CLICK", "SELECT_ALL", "DELETE">>
    ELSE ClearKeys(Len(f.text))

\* a clear_field that leaves the input as it is
clear_field_skipped(name, f) == f

\* Utility.clear_field: the input afterwards
clear_field(name, f) == ApplyAll(f, ClearSent(name, f))

\* WebElement.send_keys
send_keys(content, text) == content \o <<text>>

\* the `password` argument of account_signup
password == "Sn0wLeopard!"

\* the positions of the `while not_verified` loop
PinPositions == {"pin_fetch", "webmail_extract", "pin_clear", "pin_enter",
                 "pin_submit"}

\* the workflow state (spec 4.2) a position belongs to
StateOf(p) ==
    CASE p \in {"role_email", "extra"} -> "RoleAndEmailEntry"
      [] p \in PinPositions -> "PinVerification"
      [] p \in {"password", "accounts_wait"} -> "PasswordOrSocialSetup"
      [] p = "profile" -> "ProfileDetailsEntry"
      [] p = "subjects" -> "InstructorSubjectSelection"
      [] p = "terms" -> "TermsAndNewsletter"
      [] p = "confirm" -> "SubmissionConfirmation"
      [] p = "notice" -> "InstructorAccessReview"
      [] OTHER -> "Done"

\* a wait that any location satisfies
OnAnyDomain(loc) == TRUE

\* 'accounts' in urlparse(self.selenium.current_url).netloc
OnAccounts(loc) == loc \in {"accounts/signup", "accounts/profile"}

-----------------------------------------------------------------------------
\* account_signup: steps

inputs == <<role, email, provider, tutor, social, news, subjects,
            destination, backend>>

passwordVars == <<passwordField, confirmationField>>

mailVars == <<inbox, undelivered>>

pinHistory == <<readAt, submitted, submittedAt, lastPinOutcome, nFetch,
                nClear, nSubmit, nReject>>

profileVars == <<filled, newsToggles, termsAgreed, noticeRequested,
                 selected, selectCalls, newsChecked, newsWasChecked,
                 returned>>

\* an exception leaves account_signup
Fail(msg) ==
    /\ pc' = "failed"
    /\ failure' = msg
    /\ failedAt' = pc

Goto(p) ==
    /\ pc' = p
    /\ UNCHANGED <<failure, failedAt>>

\* select the role (unless tutor), type the email, next(), assert no error
RoleEmailSubmit ==
    /\ pc = "role_email"
    /\ \E err \in ErrTexts :
        /\ alert' = err
        /\ lastSubmit' = "role_email"
        /\ IF AssertFails(err)
           THEN Fail(AssertMessage(err))
           ELSE IF NeedsExtraContinue(role, email)
                THEN Goto("extra")
                ELSE Goto("pin_fetch")
    /\ UNCHANGED <<inputs, pin, field, pinAlert, location, mailVars,
                   extraContinue, pinHistory, profileVars, passwordVars,
                   clickVars, auxVars>>

\* the second self.next() of the role and email step; nothing is checked
ExtraContinue ==
    /\ pc = "extra"
    /\ \E err \in ErrTexts : alert' = err
    /\ lastSubmit' = "extra"
    /\ extraContinue' = TRUE
    /\ Goto("pin_fetch")
    /\ UNCHANGED <<inputs, pin, field, pinAlert, location, mailVars,
                   pinHistory, profileVars, passwordVars,
                   clickVars, auxVars>>

\* a fetch that goes on to clear_pin whatever it read
FetchedUnchecked(p, len) ==
    /\ pin' = p
    /\ readAt' = len
    /\ nFetch' = Inc(nFetch)
    /\ Goto("pin_clear")

\* `if not pin: raise ValueError('PIN not found')`, then on to clear_pin
Fetched(p, len) ==
    /\ pin' = p
    /\ readAt' = len
    /\ nFetch' = Inc(nFetch)
    /\ IF p = NoPin THEN Fail("PIN not found") ELSE Goto("pin_clear")

\* provider google: the Gmail reader's latest message
FetchGoogle ==
    /\ pc = "pin_fetch"
    /\ provider = "google"
    /\ Fetched(GmailLatestPin(inbox), Len(inbox))
    /\ UNCHANGED <<inputs, field, alert, pinAlert, location, mailVars,
                   lastSubmit, extraContinue, submitted, submittedAt,
                   lastPinOutcome, nClear, nSubmit, nReject, profileVars,
                   passwordVars,
                   clickVars, auxVars>>

\* provider restmail: box = page.wait_for_mail(); box[-1].pin
FetchRestmail ==
    /\ pc = "pin_fetch"
    /\ provider = "restmail"
    /\ IF inbox = <<>>
       THEN /\ Fail("Timeout")
            /\ UNCHANGED <<pin, readAt, nFetch>>
       ELSE Fetched(RestmailPin(RestmailBox(inbox)), Len(inbox))
    /\ UNCHANGED <<inputs, field, alert, pinAlert, location, mailVars,
                   lastSubmit, extraContinue, submitted, submittedAt,
                   lastPinOutcome, nClear, nSubmit, nReject, profileVars,
                   passwordVars,
                   clickVars, auxVars>>

\* provider guerrilla: page.open() and the wait for a new first message with a PIN
WebmailWait ==
    /\ pc = "pin_fetch"
    /\ provider = "guerrilla"
    /\ \E isNew \in BOOLEAN :
        IF inbox = <<>>
        THEN Fail("IndexError")
        ELSE IF isNew /\ WebmailHasPin(WebmailListing(inbox))
             THEN Goto("webmail_extract")
             ELSE Fail("Timeout")
    /\ UNCHANGED <<inputs, pin, field, alert, pinAlert, location, mailVars,
                   lastSubmit, extraContinue, pinHistory, profileVars,
                   passwordVars,
                   clickVars, auxVars>>

\* after sleep(5.0): pin = page.emails[0].get_pin; back to the verify page
WebmailExtract ==
    /\ pc = "webmail_extract"
    /\ Fetched(WebmailPin(WebmailListing(inbox)), Len(inbox))
    /\ UNCHANGED <<inputs, field, alert, pinAlert, location, mailVars,
                   lastSubmit, extraContinue, submitted, submittedAt,
                   lastPinOutcome, nClear, nSubmit, nReject, profileVars,
                   passwordVars,
                   clickVars, auxVars>>

\* any other provider: mailer = _type(self.driver) calls a string
FetchOther ==
    /\ pc = "pin_fetch"
    /\ provider = "other"
    /\ Fail("TypeError")
    /\ UNCHANGED <<inputs, pin, field, alert, pinAlert, location, mailVars,
                   lastSubmit, extraContinue, pinHistory, profileVars,
                   passwordVars,
                   clickVars, auxVars>>

\* self.pin.clear_pin()
PinClear ==
    /\ pc = "pin_clear"
    /\ \E caret \in 0..Len(field) :
          field' = clear_field(backend, [text |-> field, cursor |-> caret,
                                         all |-> FALSE]).text
    /\ nClear' = Inc(nClear)
    /\ Goto("pin_enter")
    /\ UNCHANGED <<inputs, pin, alert, pinAlert, location, mailVars,
                   lastSubmit, extraContinue, readAt, submitted, submittedAt,
                   lastPinOutcome, nFetch, nSubmit, nReject, profileVars,
                   passwordVars,
                   clickVars, auxVars>>

\* self.pin.verify_pin = pin
PinEnter ==
    /\ pc = "pin_enter"
    /\ field' = send_keys(field, pin)
    /\ Goto("pin_submit")
    /\ UNCHANGED <<inputs, pin, alert, pinAlert, location, mailVars,
                   lastSubmit, extraContinue, pinHistory, profileVars,
                   passwordVars,
                   clickVars, auxVars>>

\* self.next(); sleep(0.25); if not self.pin.pin_failure: not_verified = False
\* The server accepts only the valid code, and may reject that one too.
PinSubmit ==
    /\ pc = "pin_submit"
    /\ \E ok \in (IF field = <<ValidCode>> /\ ValidCode # NoPin
                  THEN BOOLEAN ELSE {FALSE}) :
        /\ lastPinOutcome' = IF ok THEN "accepted" ELSE "rejected"
        /\ pinAlert' = ~ok
        /\ nReject' = IF ok THEN nReject ELSE Inc(nReject)
        /\ IF not_verified(pin_failure(~ok))
           THEN Goto(LoopHead)
           ELSE Goto("password")
    /\ submitted' = field
    /\ submittedAt' = readAt
    /\ nSubmit' = Inc(nSubmit)
    /\ lastSubmit' = "pin"
    /\ UNCHANGED <<inputs, pin, field, alert, location, mailVars,
                   extraContinue, readAt, nFetch, nClear, profileVars,
                   passwordVars,
                   clickVars, auxVars>>

\* the password fields and next(), or the social log in; then the waits
PasswordOrSocial ==
    /\ pc = "password"
    /\ IF social = "none"
       THEN \E err \in ErrTexts, reached \in BOOLEAN :
            /\ passwordField' = send_keys(passwordField, password)
            /\ confirmationField' = send_keys(confirmationField, password)
            /\ alert' = err
            /\ lastSubmit' = "password"
            /\ IF AssertFails(err)
               THEN /\ Fail(AssertMessage(err))
                    /\ UNCHANGED location
               ELSE IF reached
                    THEN /\ location' = "accounts/profile"
                         /\ Goto("accounts_wait")
                    ELSE /\ Fail("Timeout")
                         /\ UNCHANGED location
       ELSE \E back \in BOOLEAN :
            /\ location' = IF back THEN "accounts/profile" ELSE "external"
            /\ Goto("accounts_wait")
            /\ UNCHANGED <<alert, lastSubmit, passwordVars>>
    /\ UNCHANGED <<inputs, pin, field, pinAlert, mailVars, extraContinue,
                   pinHistory, profileVars, clickVars, auxVars>>

\* self.wait.until('accounts' in the current netloc)
AccountsWait ==
    /\ pc = "accounts_wait"
    /\ IF OnAccounts(location) THEN Goto("profile") ELSE Fail("Timeout")
    /\ UNCHANGED <<inputs, pin, field, alert, pinAlert, location, mailVars,
                   lastSubmit, extraContinue, pinHistory, profileVars,
                   passwordVars,
                   clickVars, auxVars>>

\* the fields account_signup writes for a role
ProfileFields(t, s) ==
    (IF s = "none" THEN {"first_name", "last_name", "suffix"} ELSE {})
    \cup {"school"}
    \cup (IF non_student_role(t) THEN {"phone", "webpage"} ELSE {})
    \cup (IF instructor(t) THEN {"students", "using"} ELSE {})

ProfileDetails ==
    /\ pc = "profile"
    /\ filled' = ProfileFields(role, social)
    /\ Goto("subjects")
    /\ UNCHANGED <<inputs, pin, field, alert, pinAlert, location, mailVars,
                   lastSubmit, extraContinue, pinHistory, newsToggles,
                   termsAgreed, noticeRequested, selected, selectCalls,
                   newsChecked, newsWasChecked, returned, passwordVars,
                   clickVars, auxVars>>

\* the supplied list handed over as it is
SubjectsAsSupplied(t, supplied) == supplied

\* subjects_to_select: for _, name in SUBJECTS: if name in kwargs['subjects']
SubjectsToSelect(t, supplied) ==
    IF non_student_role(t)
    THEN SelectSeq(SUBJECTS, LAMBDA name : name \in Range(supplied))
    ELSE <<>>

\* if subjects_to_select: self.instructor.select_subjects(subjects_to_select)
SelectSubjects ==
    /\ pc = "subjects"
    /\ LET subjects_to_select == SubjectsToSelect(role, subjects)
       IN  IF subjects_to_select # <<>>
           THEN /\ selected' = subjects_to_select
                /\ selectCalls' = selectCalls + 1
           ELSE UNCHANGED <<selected, selectCalls>>
    /\ Goto("terms")
    /\ UNCHANGED <<inputs, pin, field, alert, pinAlert, location, mailVars,
                   lastSubmit, extraContinue, pinHistory, filled,
                   newsToggles, termsAgreed, noticeRequested, newsChecked,
                   newsWasChecked, returned, passwordVars,
                   clickVars, auxVars>>

\* the workflow state the run is in: the state of its position, or of the
\* position it failed at; the subject selection is a state of its own only
\* when there is something to select
State ==
    LET p == IF pc = "failed" THEN failedAt ELSE pc
    IN  IF p = "subjects" /\ SubjectsToSelect(role, subjects) = <<>>
        THEN "ProfileDetailsEntry"
        ELSE StateOf(p)

\* a toggle made whatever was requested
ToggleAlways(n, checked) == TRUE

\* a toggle made only when the checkbox differs from the request
ToggleWhenDiffers(n, checked) == checked # n

\* if not kwargs.get('news'): self.user.toggle_news()
ToggleNeeded(n, checked) == ~n

\* a notice requested for instructors only
NoticeForInstructorOnly(t) == instructor(t)

\* `if non_student_role:` before get_confirmation_email
RequestsNotice(t) == non_student_role(t)

\* toggle_news, agree_to_terms, next()
TermsSubmit ==
    /\ pc = "terms"
    /\ IF ToggleNeeded(news, newsChecked)
       THEN /\ newsToggles' = newsToggles + 1
            /\ newsChecked' = ~newsChecked
       ELSE UNCHANGED <<newsToggles, newsChecked>>
    /\ termsAgreed' = ~tutor
    /\ lastSubmit' = "terms"
    /\ \E err \in ErrTexts : alert' = err
    /\ Goto("confirm")
    /\ UNCHANGED <<inputs, pin, field, pinAlert, location, mailVars,
                   extraContinue, pinHistory, filled, noticeRequested,
                   selected, selectCalls, newsWasChecked, returned,
                   passwordVars,
                   clickVars, auxVars>>

\* the form is out: the assert, for non-students only, and the branch to the
\* notice
SubmissionConfirm ==
    /\ pc = "confirm"
    /\ IF non_student_role(role) /\ AssertFails(alert)
       THEN Fail(AssertMessage(alert))
       ELSE IF RequestsNotice(role)
            THEN Goto("notice")
            ELSE Goto("goto")
    /\ UNCHANGED <<inputs, pin, field, alert, pinAlert, location, mailVars,
                   lastSubmit, extraContinue, pinHistory, profileVars,
                   passwordVars,
                   clickVars, auxVars>>

\* self.notice.get_confirmation_email(); self.next(); nothing is checked
InstructorNotice ==
    /\ pc = "notice"
    /\ noticeRequested' = TRUE
    /\ lastSubmit' = "notice"
    /\ \E err \in ErrTexts : alert' = err
    /\ Goto("goto")
    /\ UNCHANGED <<inputs, pin, field, pinAlert, location, mailVars,
                   extraContinue, pinHistory, filled, newsToggles,
                   termsAgreed, selected, selectCalls, newsChecked,
                   newsWasChecked, returned, passwordVars,
                   clickVars, auxVars>>

\* what the caller may pass as destination: nothing, a URL, a page object
Destinations == {"none", "url", "page"}

\* the page handed to go_to_: Terms for tutor, the destination when it is a
\* Page (isinstance(destination, Page)), the profile otherwise
ReturnedPage(isTutor, dest) ==
    IF isTutor THEN "Terms"
    ELSE IF dest = "page" THEN "destination"
    ELSE "Profile"

\* where the browser is when the page has loaded
LocationOf(page) ==
    CASE page = "Terms" -> "tutor/terms"
      [] page = "destination" -> "web/destination"
      [] OTHER -> "accounts/profile"

\* return go_to_(...): the page loads, or the wait for it times out
GoToDestination ==
    /\ pc = "goto"
    /\ \E loaded \in BOOLEAN :
        IF loaded
        THEN /\ returned' = ReturnedPage(tutor, destination)
             /\ location' = LocationOf(returned')
             /\ Goto("done")
        ELSE /\ Fail("Timeout")
             /\ UNCHANGED <<location, returned>>
    /\ UNCHANGED <<inputs, pin, field, alert, pinAlert, mailVars, lastSubmit,
                   extraContinue, pinHistory, filled, newsToggles,
                   termsAgreed, noticeRequested, selected, selectCalls,
                   newsChecked, newsWasChecked, passwordVars,
                   clickVars, auxVars>>

\* the mail service delivers one more message, with a new code or without one
MailArrives ==
    /\ undelivered > 0
    /\ pc \in PinPositions
    /\ \E withPin \in BOOLEAN :
        inbox' = Append(inbox, [id |-> Len(inbox) + 1,
                                code |-> IF withPin THEN Len(inbox) + 1
                                         ELSE NoPin])
    /\ undelivered' = undelivered - 1
    /\ UNCHANGED <<inputs, pc, pin, failure, failedAt, field, alert, pinAlert,
                   location, lastSubmit, extraContinue, pinHistory,
                   profileVars, passwordVars,
                   clickVars, auxVars>>

SignupStep ==
    \/ RoleEmailSubmit
    \/ ExtraContinue
    \/ FetchGoogle
    \/ FetchRestmail
    \/ WebmailWait
    \/ WebmailExtract
    \/ FetchOther
    \/ PinClear
    \/ PinEnter
    \/ PinSubmit
    \/ PasswordOrSocial
    \/ AccountsWait
    \/ ProfileDetails
    \/ SelectSubjects
    \/ TermsSubmit
    \/ SubmissionConfirm
    \/ InstructorNotice
    \/ GoToDestination

-----------------------------------------------------------------------------
\* Utility.click_option(driver, locator, element, force_js_click)

\* range(10): the synthetic dispatch attempts
JsClickAttempts == 10

\* shift of the scroll that precedes the click
ScrollShift == -80

Browsers == {"chrome", "firefox", "safari"}

\* what driver.execute_script(JAVASCRIPT_CLICK, element) may do
JsOutcomes == {"ok", "intercepted", "nosuch", "stale", "other"}

\* the retry loop without its last except clause
ToleratedWithoutStale == {"intercepted", "nosuch"}

\* except clauses for every error of the dispatch
ToleratedAll == {"intercepted", "nosuch", "stale", "other"}

\* the except clauses of the retry loop
Tolerated == {"intercepted", "nosuch", "stale"}

\* the except clauses that look the element up again
ReResolved == {"nosuch", "stale"}

\* a bypass that leaves the backend out
BypassOnlyForced(args) == args.force

\* force_js_click or the safari backend: the native click is bypassed
BypassNative(args) == args.force \/ args.browser = "safari"

clickState == <<attempts, dispatched, nativeClicks, resolves, scrolled,
                lastErr>>

Raise(err) ==
    /\ cpc' = "raised"
    /\ raised' = err

\* element = element if element else driver.find_element(*locator)
ClickResolve ==
    /\ cpc = "start"
    /\ IF cargs.element
       THEN cpc' = "scroll" /\ UNCHANGED raised
       ELSE IF ~cargs.locator
            THEN Raise("TypeError")
            ELSE \E found \in BOOLEAN :
                 IF found THEN cpc' = "scroll" /\ UNCHANGED raised
                 ELSE Raise("nosuch")
    /\ UNCHANGED <<cargs, clickState, signupVars, auxVars>>

\* cls.scroll_to(driver, element=element, shift=-80); sleep(0.5)
ClickScroll ==
    /\ cpc = "scroll"
    /\ \E ok \in BOOLEAN :
        IF ok
        THEN /\ scrolled' = ScrollShift
             /\ cpc' = "native"
             /\ UNCHANGED raised
        ELSE /\ Raise("stale")
             /\ UNCHANGED scrolled
    /\ UNCHANGED <<cargs, attempts, dispatched, nativeClicks, resolves,
                   lastErr, signupVars, auxVars>>

\* the try block: the bypass, or element.click()
ClickNative ==
    /\ cpc = "native"
    /\ IF BypassNative(cargs)
       THEN /\ cpc' = "js"
            /\ UNCHANGED <<dispatched, nativeClicks>>
       ELSE /\ nativeClicks' = nativeClicks + 1
            /\ \E ok \in BOOLEAN :
                IF ok
                THEN dispatched' = "native" /\ cpc' = "returned"
                ELSE dispatched' = dispatched /\ cpc' = "js"
    /\ UNCHANGED <<cargs, attempts, resolves, scrolled, lastErr, raised,
                   signupVars, auxVars>>

\* one turn of `for _ in range(10)`: execute_script, break, the except clauses
ClickJsAttempt ==
    /\ cpc = "js"
    /\ attempts < JsClickAttempts
    /\ attempts' = attempts + 1
    /\ \E out \in JsOutcomes :
        /\ lastErr' = IF out = "ok" THEN lastErr ELSE out
        /\ IF out = "ok"
           THEN /\ dispatched' = "js"
                /\ cpc' = "returned"
                /\ UNCHANGED raised
           ELSE IF out \notin Tolerated
           THEN /\ Raise(out)
                /\ UNCHANGED dispatched
           ELSE IF out \in ReResolved /\ cargs.locator
           THEN /\ cpc' = "js_resolve"
                /\ UNCHANGED <<dispatched, raised>>
           ELSE /\ cpc' = "js"
                /\ UNCHANGED <<dispatched, raised>>
    /\ UNCHANGED <<cargs, nativeClicks, resolves, scrolled, signupVars, auxVars>>

\* inside an except clause: element = driver.find_element(*locator)
ClickReResolve ==
    /\ cpc = "js_resolve"
    /\ \E found \in BOOLEAN :
        IF found
        THEN /\ resolves' = resolves + 1
             /\ cpc' = "js"
             /\ UNCHANGED raised
        ELSE /\ Raise("nosuch")
             /\ UNCHANGED resolves
    /\ UNCHANGED <<cargs, attempts, dispatched, nativeClicks, scrolled,
                   lastErr, signupVars, auxVars>>

\* the for loop runs out: click_option returns
ClickLoopEnd ==
    /\ cpc = "js"
    /\ attempts = JsClickAttempts
    /\ cpc' = "returned"
    /\ UNCHANGED <<cargs, clickState, raised, signupVars, auxVars>>

ClickStep ==
    \/ ClickResolve
    \/ ClickScroll
    \/ ClickNative
    \/ ClickJsAttempt
    \/ ClickReResolve
    \/ ClickLoopEnd

-----------------------------------------------------------------------------
\* Utility.wait_for_overlay_then(target, time=10.0, interval=0.5)
\* Durations are in tenths of a second: 100 is the default time, 5 the
\* default interval.

\* values of `time` explored
Times == {3, 10, 100}

\* values of `interval` explored
Intervals == {3, 5, 10}

\* how a call of target() may end
TargetResults == {"ok", "transient", "other"}

\* a turn count rounded up instead of down
TurnsRoundedUp(time, interval) == (time + interval - 1) \div interval

\* range(int(time / interval)): the turns of the loop
Turns(time, interval) == time \div interval

\* an except clause that swallows nothing
TransientNone == {}

\* except WebDriverException: the errors a turn swallows
Transient == {"transient"}

\* one turn of the for loop: target(), break, or the except clause and sleep
OverlayInvoke ==
    /\ wpc = "loop"
    /\ invocations < Turns(wargs.time, wargs.interval)
    /\ invocations' = invocations + 1
    /\ \E res \in TargetResults :
        /\ lastResult' = res
        /\ IF res = "ok"
           THEN /\ completions' = completions + 1
                /\ wpc' = "returned"
                /\ UNCHANGED wraised
           ELSE IF res \in Transient
           THEN /\ wpc' = "loop"
                /\ UNCHANGED <<completions, wraised>>
           ELSE /\ wpc' = "raised"
                /\ wraised' = res
                /\ UNCHANGED completions
    /\ UNCHANGED <<wargs, subjectVars, signupVars, clickVars,
                   moreVars>>

\* the for loop runs out; sleep(1.0) and return
OverlayLoopEnd ==
    /\ wpc = "loop"
    /\ invocations = Turns(wargs.time, wargs.interval)
    /\ wpc' = "returned"
    /\ UNCHANGED <<wargs, invocations, completions, lastResult, wraised,
                   subjectVars, signupVars, clickVars,
                   moreVars>>

OverlayStep ==
    \/ OverlayInvoke
    \/ OverlayLoopEnd

-----------------------------------------------------------------------------
\* clear_field as an operation of its own

\* Utility.clear_field(driver, field)
ClearField ==
    /\ kpc = "start"
    /\ ksent' = ClearSent(kname, kfield)
    /\ kfield' = clear_field(kname, kfield)
    /\ kpc' = "returned"
    /\ UNCHANGED <<kname, kbefore, signupVars, clickVars, overlayVars,
                   subjectVars, pageVars, pairVars>>

ClearStep == ClearField

-----------------------------------------------------------------------------
\* The submit operations of the newer signup pages and go_to_external_

\* _continue of StudentSignup and of EducatorSignup, confirm_my_account
SubmitOps == {"student", "educator", "confirm"}

\* the classes of the pages waited for
PageClasses == {"ConfirmEmail", "CompleteSignup", "VerifyInstructor"}

\* driver.current_url: the form submitted, the page that follows it, SheerID,
\* any other page
Locations == {"form", "next", "sheerid.com", "elsewhere"}

\* no exception
NoError == [kind |-> "", text |-> "", finish |-> ""]

\* the page a submit operation hands to go_to_
NextPage(op, loc) ==
    IF op = "confirm"
    THEN IF loc = "sheerid.com" THEN "VerifyInstructor" ELSE "CompleteSignup"
    ELSE "ConfirmEmail"

\* what the test of the location after the click raises, NoError to go on
SubmitError(op, loc, msg) ==
    IF loc # "form" THEN NoError
    ELSE IF op = "educator"
         THEN IF msg # <<>>
              THEN [kind |-> "AccountsException", text |-> msg[1],
                    finish |-> ""]
              ELSE NoError
         ELSE IF msg # <<>>
              THEN [kind |-> "AccountsException", text |-> msg[1],
                    finish |-> ""]
              ELSE [kind |-> "JavascriptException", text |-> "", finish |-> ""]

\* a reload after every first timeout, a url given or not
ReloadsWithoutUrl(url, waits) == waits = 1

\* `if url:` ... except TimeoutException: destination.driver.get(url)
Reloads(url, waits) == url /\ waits = 1

\* Utility.click_option(self.driver, element=button); sleep(0.5)
SubmitClick ==
    /\ gpc = "click"
    /\ glocation' \in {"form", "next", "sheerid.com"}
    /\ gmessage' \in {<<>>} \cup {<<t>> : t \in ErrTexts \ {""}}
    /\ gpc' = "check"
    /\ UNCHANGED <<gop, gdest, gwaits, greloads, glast, gresult, graised,
                   signupVars, clickVars, overlayVars, subjectVars, clearVars,
                   pairVars>>

\* if self.driver.current_url == current_page: ...; return go_to_(...)
SubmitCheck ==
    /\ gpc = "check"
    /\ LET err == SubmitError(gop.op, glocation, gmessage) IN
        IF err # NoError
        THEN /\ graised' = err
             /\ gpc' = "raised"
             /\ UNCHANGED gdest
        ELSE /\ gdest' = NextPage(gop.op, glocation)
             /\ gpc' = "wait"
             /\ UNCHANGED graised
    /\ UNCHANGED <<gop, glocation, gmessage, gwaits, greloads, glast, gresult,
                   signupVars, clickVars, overlayVars, subjectVars, clearVars,
                   pairVars>>

\* destination.wait_for_page_to_load() and what follows it in go_to_external_
PageWait ==
    /\ gpc = "wait"
    /\ gwaits' = gwaits + 1
    /\ \E loaded \in BOOLEAN :
        IF loaded
        THEN /\ glast' = "loaded"
             /\ gresult' = gdest
             /\ gpc' = "returned"
             /\ UNCHANGED graised
        ELSE /\ glast' = "timeout"
             /\ UNCHANGED gresult
             /\ IF Reloads(gop.url, gwaits')
                THEN gpc' = "reload" /\ UNCHANGED graised
                ELSE /\ gpc' = "raised"
                     /\ graised' = [kind |-> "TimeoutException",
                                    text |-> gdest, finish |-> glocation]
    /\ UNCHANGED <<gop, gdest, glocation, gmessage, greloads,
                   signupVars, clickVars, overlayVars, subjectVars, clearVars,
                   pairVars>>

\* destination.driver.get(url); sleep(1)
PageReload ==
    /\ gpc = "reload"
    /\ greloads' = greloads + 1
    /\ glocation' \in {"next", "elsewhere"}
    /\ gpc' = "wait"
    /\ UNCHANGED <<gop, gdest, gmessage, gwaits, glast, gresult, graised,
                   signupVars, clickVars, overlayVars, subjectVars, clearVars,
                   pairVars>>

PagesStep ==
    \/ SubmitClick
    \/ SubmitCheck
    \/ PageWait
    \/ PageReload

-----------------------------------------------------------------------------
\* Two account_signup instances, each with its browser session, and the mail
\* service. The service files a message under the address it was sent to; a
\* reader returns the messages of the addresses its identifier stands for.

\* email[0:7]: the characters of the address handed to GmailReader
GmailKeyLength == 7

\* qatests1@g.co, qatests2@g.co (the same first seven characters),
\* staff01@g.co, qatests1@m.net (the local part of the first)
PairAddresses ==
    {<<"q", "a", "t", "e", "s", "t", "s", "1", "@", "g", ".", "c", "o">>,
     <<"q", "a", "t", "e", "s", "t", "s", "2", "@", "g", ".", "c", "o">>,
     <<"s", "t", "a", "f", "f", "0", "1", "@", "g", ".", "c", "o">>,
     <<"q", "a", "t", "e", "s", "t", "s", "1", "@", "m", ".", "n", "e", "t">>}

\* str.rfind: the last position of ch in s, counted from 0; -1 when absent
rfind(s, ch) ==
    LET at == {i \in 1..Len(s) : s[i] = ch}
    IN  IF at = {} THEN -1 ELSE (CHOOSE i \in at : \A j \in at : j <= i) - 1

\* what account_signup hands to the mail reader for an address:
\* GmailReader(email[0:7]), RestMail(email[:email.rfind("@")]), and the
\* browser session's own box for GuerrillaMail(self.driver)
MailboxKey(prov, address) ==
    IF prov = "google"
    THEN SubSeq(address, 1, IF Len(address) < GmailKeyLength
                            THEN Len(address) ELSE GmailKeyLength)
    ELSE IF prov = "restmail"
         THEN LET at == rfind(address, "@")
              IN  SubSeq(address, 1, IF at < 0 THEN Len(address) - 1 ELSE at)
         ELSE address

\* the messages a reader made for `address` is given
MailboxRead(prov, address, messages) ==
    SelectSeq(messages, LAMBDA m :
        MailboxKey(prov, m.to) = MailboxKey(prov, address))

\* the code of the last message sent to `address`: the one the server accepts
CodeSentTo(address, messages) ==
    GmailLatestPin(SelectSeq(messages, LAMBDA m : m.to = address))

\* role and email submitted: the accounts server mails a PIN to the address
PairSend(i) ==
    /\ mpc[i] = "start"
    /\ mstore' = Append(mstore, [id |-> Len(mstore) + 1,
                                 code |-> Len(mstore) + 1,
                                 to |-> memail[i]])
    /\ mpc' = [mpc EXCEPT ![i] = LoopHead]
    /\ UNCHANGED <<mprovider, memail, mpin, mcatalog, signupVars, clickVars,
                   overlayVars, subjectVars, clearVars, pageVars>>

\* the mail fetch of the PIN loop, by provider
PairFetch(i) ==
    /\ mpc[i] = LoopHead
    /\ LET box == MailboxRead(mprovider, memail[i], mstore) IN
        mpin' = [mpin EXCEPT ![i] =
                    IF mprovider = "google" THEN GmailLatestPin(box)
                    ELSE IF mprovider = "restmail"
                         THEN RestmailPin(RestmailBox(box))
                         ELSE WebmailPin(WebmailListing(box))]
    /\ mpc' = [mpc EXCEPT ![i] = "submit"]
    /\ UNCHANGED <<mprovider, memail, mstore, mcatalog, signupVars, clickVars,
                   overlayVars, subjectVars, clearVars, pageVars>>

\* clear_pin, the PIN typed, next(): accepted, or rejected and fetched again
PairSubmit(i) ==
    /\ mpc[i] = "submit"
    /\ mpc' = [mpc EXCEPT ![i] =
                  IF not_verified(mpin[i] # CodeSentTo(memail[i], mstore))
                  THEN LoopHead ELSE "done"]
    /\ UNCHANGED <<mprovider, memail, mstore, mpin, mcatalog, signupVars,
                   clickVars, overlayVars, subjectVars, clearVars, pageVars>>

PairStep == \E i \in {1, 2} : PairSend(i) \/ PairFetch(i) \/ PairSubmit(i)

-----------------------------------------------------------------------------
\* Specifications

\* click_option before it is called
ClickIdle ==
    /\ cpc = "idle"
    /\ cargs = [locator |-> FALSE, element |-> TRUE, force |-> FALSE,
                browser |-> "chrome"]
    /\ attempts = 0
    /\ dispatched = "no"
    /\ nativeClicks = 0
    /\ resolves = 0
    /\ scrolled = 0
    /\ lastErr = ""
    /\ raised = ""

\* wait_for_overlay_then before it is called
OverlayIdle ==
    /\ wpc = "idle"
    /\ wargs = [time |-> 100, interval |-> 5]
    /\ invocations = 0
    /\ completions = 0
    /\ lastResult = ""
    /\ wraised = ""

\* subject_list before it is called
SubjectIdle ==
    /\ spc = "idle"
    /\ requested = 0
    /\ size = 0
    /\ group = <<>>
    /\ book = ""

\* clear_field before it is called
ClearIdle ==
    /\ kpc = "idle"
    /\ kname = "chrome"
    /\ kfield = Emptied
    /\ kbefore = Emptied
    /\ ksent = <<>>

\* the page operations before they are called
PagesIdle ==
    /\ gpc = "idle"
    /\ gop = [op |-> "go_to_", url |-> FALSE]
    /\ gdest = ""
    /\ glocation = "form"
    /\ gmessage = <<>>
    /\ gwaits = 0
    /\ greloads = 0
    /\ glast = "none"
    /\ gresult = ""
    /\ graised = NoError

\* two instances before they are started
PairIdle ==
    /\ mprovider = "restmail"
    /\ memail = <<NetAddress, EduAddress>>
    /\ mstore = <<>>
    /\ mpc = <<"idle", "idle">>
    /\ mpin = <<NoPin, NoPin>>
    /\ mcatalog = Catalog

\* the other utilities before they are called
MoreIdle == ClearIdle /\ PagesIdle /\ PairIdle

\* lists of names a caller may pass as kwargs['subjects']
SubjectInputs ==
    {<<>>,
     <<"NotACatalogEntry">>,
     <<"Biology", "Calculus", "NotACatalogEntry">>,
     <<"Calculus", "Accounting", "Calculus">>}

\* no subjects and no destination passed; the newsletter checkbox checked
DefaultOptions ==
    /\ subjects = <<>>
    /\ destination = "none"
    /\ newsChecked = TRUE

\* the signup page as opened, account_signup about to run
SignupStart ==
    /\ pc = "role_email"
    /\ pin = NoPin
    /\ failure = ""
    /\ failedAt = ""
    /\ field = <<>>
    /\ passwordField = <<>>
    /\ confirmationField = <<>>
    /\ alert = ""
    /\ pinAlert = FALSE
    /\ location = "accounts/signup"
    /\ inbox = <<>>
    /\ lastSubmit = "none"
    /\ extraContinue = FALSE
    /\ readAt = 0
    /\ submitted = <<>>
    /\ submittedAt = 0
    /\ lastPinOutcome = "none"
    /\ nFetch = 0
    /\ nClear = 0
    /\ nSubmit = 0
    /\ nReject = 0
    /\ filled = {}
    /\ newsToggles = 0
    /\ termsAgreed = FALSE
    /\ noticeRequested = FALSE
    /\ selected = <<>>
    /\ selectCalls = 0
    /\ newsWasChecked = newsChecked
    /\ returned = ""

\* the whole workflow for every argument, the mail service delivering one message
Init ==
    /\ role \in Roles
    /\ email \in Emails
    /\ provider \in Providers
    /\ tutor \in BOOLEAN
    /\ social \in Socials
    /\ news \in BOOLEAN
    /\ backend = "chrome"
    /\ DefaultOptions
    /\ undelivered = 1
    /\ SignupStart
    /\ ClickIdle
    /\ OverlayIdle
    /\ SubjectIdle
    /\ MoreIdle

Next == SignupStep \/ MailArrives

Spec == Init /\ [][Next]_vars

\* account_signup runs on one thread: a step that can be taken is taken
FairSpec == Spec /\ WF_vars(SignupStep)

\* the PIN loop against a mail service that delivers up to MaxMail messages
InitPin ==
    /\ role \in Roles
    /\ email \in Emails
    /\ provider \in Providers
    /\ tutor = FALSE
    /\ social = "none"
    /\ news = FALSE
    /\ backend \in Browsers
    /\ DefaultOptions
    /\ undelivered = MaxMail
    /\ SignupStart
    /\ ClickIdle
    /\ OverlayIdle
    /\ SubjectIdle
    /\ MoreIdle

SpecPin == InitPin /\ [][Next]_vars

\* the steps after the PIN for every role and every option of the caller,
\* and either state of the newsletter checkbox
InitProfile ==
    /\ role \in Roles
    /\ email = NetAddress
    /\ provider \in Providers
    /\ tutor \in BOOLEAN
    /\ social \in Socials
    /\ news \in BOOLEAN
    /\ subjects \in SubjectInputs
    /\ destination \in Destinations
    /\ newsChecked \in BOOLEAN
    /\ backend = "firefox"
    /\ undelivered = 1
    /\ SignupStart
    /\ ClickIdle
    /\ OverlayIdle
    /\ SubjectIdle
    /\ MoreIdle

SpecProfile == InitProfile /\ [][Next]_vars

\* account_signup runs on one thread: a step that can be taken is taken
FairSpecPin == SpecPin /\ WF_vars(SignupStep)

\* click_option called with every combination of arguments on every backend
InitClick ==
    /\ role = STUDENT
    /\ email = NetAddress
    /\ provider = "restmail"
    /\ tutor = FALSE
    /\ social = "none"
    /\ news = FALSE
    /\ backend = "chrome"
    /\ DefaultOptions
    /\ undelivered = 0
    /\ SignupStart
    /\ cpc = "start"
    /\ cargs \in [locator : BOOLEAN, element : BOOLEAN, force : BOOLEAN,
                  browser : Browsers]
    /\ attempts = 0
    /\ dispatched = "no"
    /\ nativeClicks = 0
    /\ resolves = 0
    /\ scrolled = 0
    /\ lastErr = ""
    /\ raised = ""
    /\ OverlayIdle
    /\ SubjectIdle
    /\ MoreIdle

SpecClick == InitClick /\ [][ClickStep]_vars

\* arguments that leave the signup page untouched
SignupArgsAtRest ==
    /\ role = STUDENT
    /\ email = NetAddress
    /\ provider = "restmail"
    /\ tutor = FALSE
    /\ social = "none"
    /\ news = FALSE
    /\ backend = "chrome"
    /\ DefaultOptions
    /\ undelivered = 0

\* wait_for_overlay_then called with every explored time and interval
InitOverlay ==
    /\ SignupArgsAtRest
    /\ SignupStart
    /\ ClickIdle
    /\ SubjectIdle
    /\ MoreIdle
    /\ wpc = "loop"
    /\ wargs \in [time : Times, interval : Intervals]
    /\ invocations = 0
    /\ completions = 0
    /\ lastResult = ""
    /\ wraised = ""

SpecOverlay == InitOverlay /\ [][OverlayStep]_vars

\* subject_list called with every explored size
InitSubjects ==
    /\ SignupArgsAtRest
    /\ SignupStart
    /\ ClickIdle
    /\ OverlayIdle
    /\ MoreIdle
    /\ spc = "start"
    /\ requested \in Sizes
    /\ size = requested
    /\ group = <<>>
    /\ book = ""

SpecSubjects == InitSubjects /\ [][SubjectStep]_vars

\* a fair random choice: an index that would add a title is drawn in the end
FairSpecSubjects ==
    /\ SpecSubjects
    /\ WF_vars(SubjectClamp)
    /\ WF_vars(SubjectReturn)
    /\ \A i \in 0..(CatalogSize - 1) : WF_vars(SubjectDraw(i))

\* the longest text explored in an input
MaxLen == 3

\* the texts an input may hold
Texts == UNION {[1..n -> {"a", "b"}] : n \in 0..MaxLen}

\* clear_field called on every backend, for every text, caret and selection
InitClear ==
    /\ SignupArgsAtRest
    /\ SignupStart
    /\ ClickIdle
    /\ OverlayIdle
    /\ SubjectIdle
    /\ PagesIdle
    /\ PairIdle
    /\ kpc = "start"
    /\ kname \in Browsers
    /\ \E text \in Texts, caret \in 0..MaxLen, sel \in BOOLEAN :
        /\ caret <= Len(text)
        /\ sel => text # <<>>
        /\ kfield = [text |-> text, cursor |-> caret, all |-> sel]
    /\ kbefore = kfield
    /\ ksent = <<>>

SpecClear == InitClear /\ [][ClearStep]_vars

\* each submit operation on its form, and go_to_external_ for every
\* destination with and without a url
InitPages ==
    /\ SignupArgsAtRest
    /\ SignupStart
    /\ ClickIdle
    /\ OverlayIdle
    /\ SubjectIdle
    /\ ClearIdle
    /\ PairIdle
    /\ gop \in [op : SubmitOps \cup {"go_to_"}, url : BOOLEAN]
    /\ gop.op \in SubmitOps => ~gop.url
    /\ gpc = IF gop.op \in SubmitOps THEN "click" ELSE "wait"
    /\ gdest \in IF gop.op \in SubmitOps THEN {""} ELSE PageClasses
    /\ glocation \in IF gop.op \in SubmitOps THEN {"form"} ELSE Locations
    /\ gmessage = <<>>
    /\ gwaits = 0
    /\ greloads = 0
    /\ glast = "none"
    /\ gresult = ""
    /\ graised = NoError

SpecPages == InitPages /\ [][PagesStep]_vars

\* two instances with different addresses and one provider, both about to
\* submit role and email
InitPair ==
    /\ SignupArgsAtRest
    /\ SignupStart
    /\ ClickIdle
    /\ OverlayIdle
    /\ SubjectIdle
    /\ ClearIdle
    /\ PagesIdle
    /\ mprovider \in Providers \ {"other"}
    /\ memail \in PairAddresses \X PairAddresses
    /\ memail[1] # memail[2]
    /\ mstore = <<>>
    /\ mpc = <<"start", "start">>
    /\ mpin = <<NoPin, NoPin>>
    /\ mcatalog = Catalog

SpecPair == InitPair /\ [][PairStep]_vars

-----------------------------------------------------------------------------
\* Properties of the PIN loop (checked under SpecPin)

\* the inbox as it was when the submitted PIN was extracted
InboxAtRead == SubSeq(inbox, 1, submittedAt)

\* C1: every PIN submission is preceded by a mail fetch and a clearing of the
\* PIN field of its own, made since the previous submission; a rejected PIN
\* is never followed by a submission without a new fetch.
C1_FetchBeforeEverySubmit ==
    [][nSubmit' # nSubmit =>
           /\ nFetch = nSubmit + 1
           /\ nClear = nSubmit + 1]_vars

\* a second submission was made after a rejected one, over the webmail branch
C1_Witness ==
    /\ provider = "guerrilla"
    /\ nSubmit = 2
    /\ nReject >= 1
    /\ nFetch = 2

C3_LeavesPinOnlyWhenAccepted ==
    /\ State \notin {"RoleAndEmailEntry", "PinVerification"} =>
           lastPinOutcome = "accepted"
    /\ lastPinOutcome = "rejected" => State = "PinVerification"

\* the password step reached after a rejected and then an accepted PIN
C3_Witness ==
    /\ pc = "password"
    /\ nReject >= 1
    /\ lastPinOutcome = "accepted"

\* C4: the PIN step is bounded: account_signup always comes to an end, also
\* when every submitted PIN is rejected.
C4_PinRetryTerminates == <>(pc \in {"done", "failed"})

\* C5: when the (k+1)-th PIN submission is the first accepted one, exactly
\* k+1 fetches, clears and submissions were made, k of them rejected, and
\* the workflow has left PinVerification.
C5_AttemptsAreRejectionsPlusOne ==
    (lastPinOutcome = "accepted" /\ nSubmit < MaxCount) =>
        /\ nSubmit = nReject + 1
        /\ nFetch = nSubmit
        /\ nClear = nSubmit
        /\ State \notin {"RoleAndEmailEntry", "PinVerification"}

\* one rejected PIN, then an accepted one: two attempts
C5_Witness ==
    /\ pc = "password"
    /\ nReject = 1
    /\ nSubmit = 2
    /\ nFetch = 2
    /\ nClear = 2

-----------------------------------------------------------------------------
\* Properties of the whole workflow (checked under Spec)

\* C6: once the role and email step is over, the extra continue was issued
\* exactly when the role is not Student and the address does not end in
\* ".edu".
C6_ExtraContinueIffNonStudentNonEdu ==
    (pc \notin {"role_email", "extra"} /\ failedAt # "role_email") =>
        (extraContinue <=>
            (role # STUDENT /\ ~EndsWith(email, <<".", "e", "d", "u">>)))

\* C7: an error shown after the role and email submission ends the call with
\* that text, in RoleAndEmailEntry, before any continue, fetch or PIN entry.
C7_RoleEmailErrorAborts ==
    (lastSubmit = "role_email" /\ alert # "") =>
        /\ pc = "failed"
        /\ failure = alert
        /\ State = "RoleAndEmailEntry"
        /\ ~extraContinue
        /\ nFetch = 0
        /\ nSubmit = 0
        /\ field = <<>>
        /\ filled = {}

\* the call ended on the page's error text at the role and email step
C7_Witness ==
    /\ pc = "failed"
    /\ failedAt = "role_email"
    /\ failure = "Email is invalid"
    /\ alert = "Email is invalid"

\* C8: an error left on the page by any submission other than the PIN's
\* ends the call with that error.
C8_ValidationFailuresPropagate ==
    (alert # "" /\ lastSubmit \in {"role_email", "extra", "password",
                                   "terms", "notice"}) =>
        /\ pc = "failed"
        /\ failure = alert

-----------------------------------------------------------------------------
\* Properties of the steps after the PIN (checked under SpecProfile)

\* position of a title in the catalog
CatalogIndex(name) == CHOOSE i \in 1..Len(SUBJECTS) : SUBJECTS[i] = name

\* the subject selection is behind
AfterSelection ==
    \/ pc \in {"terms", "confirm", "notice", "goto", "done"}
    \/ pc = "failed" /\ failedAt \in {"terms", "confirm", "notice", "goto"}

\* the terms form was submitted
TermsSubmitted == lastSubmit \in {"terms", "notice"}

C15_OneToggleIffNoNews ==
    /\ TermsSubmitted => newsToggles = IF news THEN 0 ELSE 1
    /\ ~TermsSubmitted => newsToggles = 0

\* no news requested, the checkbox rendered unchecked: one click all the same
C15_Witness ==
    /\ ~news
    /\ ~newsWasChecked
    /\ newsToggles = 1
    /\ pc = "done"

C17_ProfileFieldsByRole ==
    pc \in {"subjects", "terms", "confirm", "notice", "goto", "done"} =>
        /\ "school" \in filled
        /\ role # STUDENT =>
               {"phone", "webpage", "students", "using"} \subseteq filled
        /\ role = STUDENT =>
               filled \cap {"phone", "webpage", "students", "using"} = {}

\* C18: the approval notification is requested, and the form advanced once
\* more, exactly for the roles other than Student, in one step that follows
\* the terms submission and leads to the return; a Student goes from the
\* terms submission to the return and is never in InstructorAccessReview;
\* Done is entered from the return only.
C18_NoticeIffNonStudent ==
    /\ []((pc \in {"goto", "done"} \/ (pc = "failed" /\ failedAt = "goto")) =>
            /\ noticeRequested <=> role # STUDENT
            /\ lastSubmit = IF role # STUDENT THEN "notice" ELSE "terms")
    /\ [](role = STUDENT =>
            /\ ~noticeRequested
            /\ State # "InstructorAccessReview")
    /\ [][noticeRequested' # noticeRequested =>
             /\ State = "InstructorAccessReview"
             /\ lastSubmit = "terms"
             /\ lastSubmit' = "notice"
             /\ pc' = "goto"]_vars
    /\ [][(pc = "confirm" /\ role = STUDENT) =>
             pc' \in {"confirm", "goto"}]_vars
    /\ [][pc' = "done" => pc \in {"goto", "done"}]_vars

\* an Administrator is done, the notification requested after the terms
C18_Witness ==
    /\ role = ADMINISTRATOR
    /\ noticeRequested
    /\ lastSubmit = "notice"
    /\ termsAgreed
    /\ pc = "done"

\* C19: outside tutor, account_signup returns the caller's destination
\* whenever one was passed, as a URL or as a page object, and the profile
\* page only when none was passed.
C19_ReturnsSuppliedDestination ==
    (pc = "done" /\ ~tutor) =>
        /\ destination # "none" => returned = "destination"
        /\ returned = "Profile" => destination = "none"

\* the workflow states in the order of spec 4.2
StateOrder ==
    <<"RoleAndEmailEntry", "PinVerification", "PasswordOrSocialSetup",
      "ProfileDetailsEntry", "InstructorSubjectSelection",
      "TermsAndNewsletter", "SubmissionConfirmation",
      "InstructorAccessReview", "Done">>

\* the states spec 4.2 marks optional
OptionalStates == {"InstructorSubjectSelection", "InstructorAccessReview"}

Rank(st) == CHOOSE i \in 1..Len(StateOrder) : StateOrder[i] = st

\* the positions of account_signup in the order of its text
PcOrder ==
    <<"role_email", "extra", "pin_fetch", "webmail_extract", "pin_clear",
      "pin_enter", "pin_submit", "password", "accounts_wait", "profile",
      "subjects", "terms", "confirm", "notice", "goto", "done">>

PcRank(p) == CHOOSE i \in 1..Len(PcOrder) : PcOrder[i] = p

\* C21: a run starts in RoleAndEmailEntry and moves through the states in
\* the order of spec 4.2 only: no step leads to an earlier state, a step
\* passes over no state other than the two optional ones, the only step back
\* to an earlier position is the one inside PinVerification, a failure leaves
\* the run in the state it was in, and after a failure nothing happens.
C21_StatesInOrder ==
    /\ State = "RoleAndEmailEntry"
    /\ [][Rank(State') >= Rank(State)]_vars
    /\ [][\A r \in (Rank(State) + 1)..(Rank(State') - 1) :
             StateOrder[r] \in OptionalStates]_vars
    /\ [][(pc' # pc /\ pc' # "failed") =>
             \/ PcRank(pc') > PcRank(pc)
             \/ State = "PinVerification" /\ State' = "PinVerification"]_vars
    /\ [][(pc' = "failed" /\ pc # "failed") =>
             /\ State' = State
             /\ failure' # ""]_vars
    /\ [][pc = "failed" => UNCHANGED signupVars]_vars

\* an Instructor is done after a rejected PIN, a subject selection and the
\* notice: every state was visited, PinVerification twice
C21_Witness ==
    /\ role = INSTRUCTOR
    /\ nReject >= 1
    /\ selectCalls = 1
    /\ noticeRequested
    /\ State = "Done"
    /\ pc = "done"
    /\ returned # ""

\* Checked under FairSpec.
\* C20: for every role, a call outside tutor during which no error is ever
\* shown, no wait times out and a PIN is accepted in the end reaches Done
\* with the browser on the profile page.
C20_ValidSignupReachesProfile ==
    (/\ ~tutor
     /\ [](alert = "")
     /\ [](failure \notin {"Timeout", "IndexError"})
     /\ <>(lastPinOutcome = "accepted"))
    => <>(pc = "done" /\ location = "accounts/profile")

\* an Instructional Designer is done on the profile page, a first PIN having
\* been rejected
C20_Witness ==
    /\ role = DESIGNER
    /\ ~tutor
    /\ nReject >= 1
    /\ alert = ""
    /\ pc = "done"
    /\ returned = "Profile"
    /\ location = "accounts/profile"

-----------------------------------------------------------------------------
\* Properties of click_option (checked under SpecClick)

\* C9: click_option never returns normally without the click having been
\* dispatched; when every attempt failed the last error reaches the caller.
C9_ExhaustedRetriesSurface == cpc = "returned" => dispatched # "no"

\* C10: synthetic dispatch is attempted only after the native click failed or
\* was bypassed, at most 10 times and never after an attempt that succeeded;
\* an attempt that ends in click intercepted, element not found or stale
\* element reference leaves the loop running, and for the last two the next
\* step looks the element up by locator exactly when a locator was supplied.
C10_JsRetryLoop ==
    /\ [](attempts <= 10)
    /\ [](attempts > 0 =>
            /\ dispatched # "native"
            /\ cargs.force \/ cargs.browser = "safari" \/ nativeClicks = 1)
    /\ [][attempts' # attempts => dispatched = "no"]_vars
    /\ [][(/\ attempts' = attempts + 1
           /\ dispatched' = "no"
           /\ lastErr' \in {"intercepted", "nosuch", "stale"})
          => cpc' = IF lastErr' \in {"nosuch", "stale"} /\ cargs.locator
                    THEN "js_resolve" ELSE "js"]_vars

\* the tenth attempt was made after nine tolerated errors, the element having
\* been looked up again on the way
C10_Witness ==
    /\ attempts = 10
    /\ resolves >= 1
    /\ lastErr = "stale"
    /\ dispatched = "no"
    /\ cpc = "js"

\* C11: no click, native or synthetic, is issued before the target was
\* scrolled into view with the -80 shift; with force_js_click set or on the
\* safari backend no native click is ever issued, the click that reaches the
\* page being synthetic; otherwise exactly one native click is issued before
\* anything else, and a synthetic dispatch is attempted only when that click
\* did not go through.
C11_ScrollThenNativeOrSynthetic ==
    /\ (nativeClicks > 0 \/ attempts > 0 \/ dispatched # "no") =>
           scrolled = -80
    /\ (cargs.force \/ cargs.browser = "safari") =>
           /\ nativeClicks = 0
           /\ dispatched # "native"
    /\ ~(cargs.force \/ cargs.browser = "safari") =>
           /\ nativeClicks <= 1
           /\ (attempts > 0 \/ dispatched # "no") => nativeClicks = 1
           /\ dispatched = "native" => attempts = 0
           /\ cpc \in {"js", "js_resolve", "returned"} => nativeClicks = 1

\* on safari, without force_js_click, the click went through on the first
\* synthetic dispatch, after the scroll and with no native click
C11_Witness ==
    /\ cargs.browser = "safari"
    /\ ~cargs.force
    /\ scrolled = -80
    /\ nativeClicks = 0
    /\ attempts = 1
    /\ dispatched = "js"
    /\ cpc = "returned"

-----------------------------------------------------------------------------
\* Properties of wait_for_overlay_then (checked under SpecOverlay)

\* C12: target() is called again after every call that ended in a transient
\* UI error while turns are left, never after a call that returned, and at
\* most int(time / interval) times: 20 times with the defaults 10 and 0.5.
C12_InvokeUntilFirstSuccess ==
    /\ [](invocations <= wargs.time \div wargs.interval)
    /\ []((wargs.time = 100 /\ wargs.interval = 5) => invocations <= 20)
    /\ [](completions <= 1)
    /\ [][invocations' # invocations =>
             /\ invocations' = invocations + 1
             /\ completions = 0]_vars
    /\ [][(invocations' # invocations /\ lastResult' = "transient") =>
             wpc' = "loop"]_vars
    /\ [](wpc = "returned" =>
             \/ completions = 1 /\ lastResult = "ok"
             \/ /\ completions = 0
                /\ invocations = wargs.time \div wargs.interval)

\* with the defaults, target() returned on its twentieth call
C12_Witness ==
    /\ wargs.time = 100
    /\ wargs.interval = 5
    /\ invocations = 20
    /\ completions = 1
    /\ wpc = "returned"

-----------------------------------------------------------------------------
\* Properties of subject_list (checked under FairSpecSubjects)

\* C13: subject_list(size) returns min(size, catalog length) titles of the
\* catalog, no title twice: every title of the catalog when size exceeds the
\* catalog length, none when size is 0; and it returns for every size when
\* the random choice is fair.
C13_SubjectListClampedDistinct ==
    /\ [](spc = "returned" =>
            /\ Len(group) = IF requested < Len(Catalog) THEN requested
                            ELSE Len(Catalog)
            /\ \A i, j \in 1..Len(group) : group[i] = group[j] => i = j
            /\ Range(group) \subseteq Range(Catalog)
            /\ requested > Len(Catalog) => Range(group) = Range(Catalog)
            /\ requested = 0 => group = <<>>)
    /\ <>(spc = "returned")

\* more titles were asked for than the catalog has, and the whole catalog
\* was returned
C13_Witness ==
    /\ spc = "returned"
    /\ requested > Len(Catalog)
    /\ Len(group) = Len(Catalog)
    /\ Range(group) = Range(Catalog)

-----------------------------------------------------------------------------
\* Properties of the password or social step (checked under SpecProfile)

\* C22: no profile field is filled before the password or social step is
\* completed. With a password, the same password was typed into both
\* password fields, the form was submitted without a validation error and the
\* location holds 'profile'; with a social log in the password fields were
\* never written and the browser is back on the accounts domain.
C22_ProfileAfterPasswordOrSocial ==
    /\ [](filled # {} => pc \notin {"role_email", "extra", "password",
                                    "accounts_wait", "profile"}
                                   \cup PinPositions)
    /\ [][filled' # filled =>
            IF social = "none"
            THEN /\ passwordField = <<password>>
                 /\ confirmationField = passwordField
                 /\ lastSubmit = "password"
                 /\ alert = ""
                 /\ location = "accounts/profile"
            ELSE /\ passwordField = <<>>
                 /\ confirmationField = <<>>
                 /\ location # "external"]_vars
    /\ [](social # "none" => passwordField = <<>> /\ confirmationField = <<>>)
    /\ [][passwordVars' # passwordVars =>
            pc = "password" /\ social = "none"]_vars

\* the profile fields filled after a password was set
C22_Witness ==
    /\ filled # {}
    /\ social = "none"
    /\ passwordField = <<password>>
    /\ confirmationField = <<password>>

-----------------------------------------------------------------------------
\* Properties of clear_field (checked under SpecClear)

\* C25: after clear_field the input holds no text, on every backend, for
\* every text and every position of the caret: by the native clear on chrome,
\* by select all and Delete on firefox, and elsewhere by as many pairs of
\* Delete and Backspace as the text had characters, none for an empty input.
C25_ClearFieldEmpties ==
    kpc = "returned" =>
        /\ kfield.text = <<>>
        /\ kname = "chrome" => ksent = <<"CLEAR">>
        /\ kname = "firefox" => ksent = <<"CLICK", "SELECT_ALL", "DELETE">>
        /\ kname \notin {"chrome", "firefox"} =>
            /\ Len(ksent) = 2 * Len(kbefore.text)
            /\ \A i \in 1..Len(kbefore.text) :
                /\ ksent[2 * i - 1] = "DELETE"
                /\ ksent[2 * i] = "BACKSPACE"

\* a text of two characters with the caret between them, cleared by keys
C25_Witness ==
    /\ kpc = "returned"
    /\ kname = "safari"
    /\ kbefore = [text |-> <<"a", "b">>, cursor |-> 1, all |-> FALSE]
    /\ ksent = <<"DELETE", "BACKSPACE", "DELETE", "BACKSPACE">>
    /\ kfield.text = <<>>

-----------------------------------------------------------------------------
\* Properties of the PIN field (checked under SpecPin, on every backend)

\* C27: at every PIN submission the PIN field holds exactly the PIN fetched
\* in that iteration: the field is empty when the PIN is typed, whatever the
\* backend and whatever an earlier iteration left in it.
C27_FieldHoldsFetchedPin ==
    /\ [](pc = "pin_submit" => field = <<pin>>)
    /\ [][nSubmit' # nSubmit => field = <<pin>> /\ submitted' = <<pin>>]_vars
    /\ [][pc = "pin_enter" /\ pc' = "pin_submit" =>
            field = <<>> /\ nClear = Inc(nSubmit)]_vars

\* a second PIN submitted after a rejected one, the field cleared by keys
C27_Witness ==
    /\ backend = "safari"
    /\ nSubmit = 2
    /\ nReject >= 1
    /\ nClear = 2
    /\ submitted = <<pin>>

-----------------------------------------------------------------------------
\* Properties of the ways out of the PIN loop (checked under SpecPin)

\* a step that ends a mail fetch with no PIN
FetchYieldsNoPin == nFetch' # nFetch /\ pin' = NoPin

\* a step out of the `while not_verified` loop
LeavesPinLoop == pc \in PinPositions /\ pc' \notin PinPositions

\* the errors the mail fetch itself raises: the wait for mail timing out, an
\* empty listing indexed, the provider name called
FetchErrors == {"Timeout", "IndexError", "TypeError"}

\* a mail fetch without a PIN fails with 'PIN not found' and nothing is
\* cleared, typed or submitted; after a failure no step runs
NoPinFailsAtOnce ==
    /\ [][FetchYieldsNoPin =>
            /\ pc' = "failed"
            /\ failure' = "PIN not found"
            /\ UNCHANGED <<field, nClear, nSubmit, submitted>>]_vars
    /\ [](failure = "PIN not found" => pin = NoPin /\ nClear = nSubmit)
    /\ [][pc = "failed" => UNCHANGED signupVars]_vars

-----------------------------------------------------------------------------
\* Properties of the except clauses of click_option (checked under SpecClick)

\* C29: the retry loop goes on only after click intercepted, element not
\* found or stale element reference raised by the synthetic dispatch; any
\* other error of the dispatch, and any error of the lookup made in an except
\* clause, ends the loop at once and reaches the caller.
C29_OnlyToleratedAbsorbed ==
    /\ [][(attempts' # attempts /\ cpc' # "returned") =>
            IF lastErr' \in {"intercepted", "nosuch", "stale"}
            THEN cpc' \in {"js", "js_resolve"} /\ raised' = ""
            ELSE /\ cpc' = "raised"
                 /\ raised' = lastErr'
                 /\ dispatched' = "no"]_vars
    /\ [][cpc = "js_resolve" =>
            \/ resolves' = resolves + 1 /\ cpc' = "js" /\ raised' = ""
            \/ resolves' = resolves /\ cpc' = "raised" /\ raised' = "nosuch"]_vars
    /\ [][cpc = "raised" => UNCHANGED clickVars]_vars
    /\ [](cpc = "raised" <=> raised # "")

\* an error that is not tolerated ended the loop on the third dispatch, after
\* two tolerated errors and one lookup
C29_Witness ==
    /\ cpc = "raised"
    /\ raised = "other"
    /\ attempts = 3
    /\ resolves = 1
    /\ dispatched = "no"

-----------------------------------------------------------------------------
\* Properties of the return of wait_for_overlay_then (checked under SpecOverlay)

\* C30: wait_for_overlay_then returns normally, target() never having
\* returned, both when every call of target() raised a transient error and
\* when time is less than interval and target() was never called; nothing it
\* returns or raises tells these from a call that went through.
C30_SilentReturn ==
    /\ [](wraised # "" <=> wpc = "raised")
    /\ [](wpc = "raised" => lastResult = "other")
    /\ []((wpc = "loop" /\ lastResult = "transient"
            /\ invocations = wargs.time \div wargs.interval) => wraised = "")
    /\ [][(wpc = "loop" /\ completions = 0
            /\ invocations = wargs.time \div wargs.interval) =>
                wpc' = "returned" /\ wraised' = "" /\ completions' = 0]_vars
    /\ []((wargs.time < wargs.interval) =>
            /\ invocations = 0
            /\ completions = 0
            /\ wpc \in {"loop", "returned"})

\* returned with time less than interval: target() was never called
C30_Witness ==
    /\ wpc = "returned"
    /\ wargs.time < wargs.interval
    /\ invocations = 0
    /\ completions = 0
    /\ wraised = ""

-----------------------------------------------------------------------------
\* Properties of the submit operations and of go_to_external_ (checked under
\* SpecPages)

\* C23: each submit operation raises AccountsException with the message of
\* the page whenever the location is unchanged after the click, and returns a
\* page only when the location has changed.
C23_UnchangedLocationRaises ==
    (gop.op \in SubmitOps /\ gpc \notin {"click", "check"}) =>
        /\ glocation = "form" =>
            /\ gpc = "raised"
            /\ graised.kind = "AccountsException"
            /\ gmessage # <<>>
            /\ graised.text = gmessage[1]
        /\ gpc = "returned" => glocation # "form"

\* C24: go_to_external_ returns the destination only after a wait for its
\* load succeeded; otherwise it raises a timeout that names the class of the
\* expected page and the location at that time. With a url, the first
\* timeout is followed by one reload of the url and one more wait: two waits
\* at most; without a url there is one wait and no reload.
C24_ReturnsLoadedOrRaises ==
    /\ [](gpc = "returned" =>
            /\ glast = "loaded"
            /\ gresult = gdest
            /\ graised = NoError)
    /\ []((gpc = "raised" /\ gwaits > 0) =>
            /\ glast = "timeout"
            /\ gresult = ""
            /\ graised = [kind |-> "TimeoutException", text |-> gdest,
                          finish |-> glocation])
    /\ [](gwaits <= 2 /\ greloads <= 1)
    /\ [](~gop.url => gwaits <= 1 /\ greloads = 0)
    /\ [][greloads' # greloads =>
            /\ gop.url
            /\ gwaits = 1
            /\ glast = "timeout"
            /\ greloads' = 1]_vars
    /\ []((gwaits = 2 \/ gpc = "reload") => gop.url /\ greloads = gwaits - 1)
    /\ []((gop.url /\ gpc = "raised") => gwaits = 2 /\ greloads = 1)

\* with a url, the page loaded on the second wait, after one reload
C24_Witness ==
    /\ gop = [op |-> "go_to_", url |-> TRUE]
    /\ gpc = "returned"
    /\ gwaits = 2
    /\ greloads = 1
    /\ gresult = gdest

-----------------------------------------------------------------------------
\* Properties of two instances (checked under SpecPair)

\* C26: two instances with different addresses share no state: the PIN an
\* instance fetched was sent to its own address, whatever the provider; an
\* instance that is done got there with the code sent to it, so its steps do
\* not depend on the other instance; the subject catalog is never modified.
C26_InstancesIsolated ==
    /\ \A i \in {1, 2} :
        /\ mpin[i] # NoPin =>
              \E m \in Range(mstore) : m.to = memail[i] /\ m.code = mpin[i]
        /\ mpc[i] \in {"submit", "done"} =>
              mpin[i] = CodeSentTo(memail[i], mstore)
    /\ mcatalog = Catalog

====
